---- MODULE Spec2Model ----
(***************************************************************************)
(* download.py: a front-end that drives yt-dlp and ffmpeg.  The script is  *)
(* a linear pipeline: probe the environment, resolve the arguments (from   *)
(* sys.argv or from prompts), check the URL, predict the file names,       *)
(* download, then locate / classify / transcode / delete every predicted   *)
(* file.  Python strings are modelled as sequences of one-character        *)
(* strings, Python lists as sequences.                                     *)
(***************************************************************************)
EXTENDS Integers, Sequences, FiniteSets, TLC

VARIABLES
    sys_argv,   \* sys.argv: <<script, url, option, ...>>, or <<script>>
    hwaccel,    \* the configuration value of line 18
    pc,         \* the position of the script
    isCli,      \* line 28 / line 157
    url, options, fileformat, folder, args, skipCheck,
    filenames,  \* list returned by GetFilenames; entries become located files
    i,          \* index of the transcode loop (0-based, as in the source)
    finalname,  \* line 226
    test,       \* exit code of the last os.system call
    fs,         \* the files that exist
    stdout,     \* what the script has reported: <<[kind, arg], ...>>
    calls,      \* external operations performed so far: <<[op, arg], ...>>
    last        \* the most recent external operation, in full: its output
                \* file and a note (the encoder, or how os.remove ended)

vars == <<sys_argv, hwaccel, pc, isCli, url, options, fileformat, folder, args,
          skipCheck, filenames, i, finalname, test, fs, stdout, calls, last>>

----------------------------------------------------------------------------
(* Bounds of the model *)

\* longest option list (sys.argv[2:]) tried in direct mode
MaxOpts == 2
\* most items a URL resolves to (lines printed by --get-filename)
MaxItems == 2
\* most files of interest present after the download
MaxFiles == 2

----------------------------------------------------------------------------
(* String literals of the script, character by character *)

OptA == <<"-","a">>
OptAudio == <<"-","-","a","u","d","i","o">>
OptC == <<"-","c">>
OptCompatibility == <<"-","-","c","o","m","p","a","t","i","b","i","l","i","t","y">>
OptF == <<"-","f">>
OptFolder == <<"-","-","f","o","l","d","e","r">>
OptH == <<"-","h">>
OptHelp == <<"-","-","h","e","l","p">>
OptS == <<"-","s">>
OptNoCheck == <<"-","-","n","o","-","c","h","e","c","k">>

\* line 61
allowedOptions ==
    <<OptA, OptAudio, OptC, OptCompatibility, OptF, OptFolder, OptH, OptHelp,
      OptS, OptNoCheck>>

\* line 107: "%(title)s"
TitleTemplate == <<"%","(","t","i","t","l","e",")","s">>
\* the text the finalname derivation splits on (line 226): "-download-"
Marker == <<"-","d","o","w","n","l","o","a","d","-">>
\* lines 142 and 172: "-download-%(id)s"
MarkerSuffix == Marker \o <<"%","(","i","d",")","s">>

FlagRestrict ==
    <<"-","-","r","e","s","t","r","i","c","t","-","f","i","l","e","n","a","m","e","s">>
FlagNoPlaylist == <<"-","-","n","o","-","p","l","a","y","l","i","s","t">>
FlagProgress == <<"-","-","p","r","o","g","r","e","s","s">>
FlagX == <<"-","x">>
FlagO == <<"-","o">>
YtDlp == <<"y","t","-","d","l","p">>
Quote == <<"\"">>
Slash == <<"/">>
Dot == <<".">>
Y == <<"y">>
Empty == <<>>

\* a Python name that is not bound yet
Undefined == <<"<undefined>">>
\* Python's None
None == <<"<None>">>

----------------------------------------------------------------------------
(* Python list and string helpers *)

\* x in lst
In(x, lst) == \E k \in 1..Len(lst) : lst[k] = x

\* lst[k] for a Python index k (0-based; a negative k counts from the end)
PyAt(lst, k) == IF k < 0 THEN lst[Len(lst) + k + 1] ELSE lst[k + 1]

\* lst.index(x): 0-based position of the first occurrence
PyIndex(lst, x) == (CHOOSE k \in 1..Len(lst) :
                        lst[k] = x /\ \A j \in 1..(k-1) : lst[j] # x) - 1

\* lst.insert(0, x)
Insert0(lst, x) == <<x>> \o lst

\* s.startswith(p)
StartsWith(s, p) == Len(p) <= Len(s) /\ SubSeq(s, 1, Len(p)) = p

\* position (1-based) of the first occurrence of sep in s, 0 if none
Find(s, sep) ==
    IF \E k \in 1..(Len(s) - Len(sep) + 1) : SubSeq(s, k, k + Len(sep) - 1) = sep
    THEN CHOOSE k \in 1..(Len(s) - Len(sep) + 1) :
            /\ SubSeq(s, k, k + Len(sep) - 1) = sep
            /\ \A j \in 1..(k-1) : SubSeq(s, j, j + Len(sep) - 1) # sep
    ELSE 0

\* s.split(sep): left to right, non-overlapping
RECURSIVE Split(_, _)
Split(s, sep) ==
    LET k == Find(s, sep) IN
    IF k = 0 THEN <<s>>
    ELSE <<SubSeq(s, 1, k - 1)>> \o Split(SubSeq(s, k + Len(sep), Len(s)), sep)

\* sep.join(parts)
RECURSIVE Join(_, _)
Join(parts, sep) ==
    IF Len(parts) = 0 THEN Empty
    ELSE IF Len(parts) = 1 THEN parts[1]
    ELSE parts[1] \o sep \o Join(Tail(parts), sep)

\* lst[:-1]
DropLast(lst) == IF Len(lst) = 0 THEN lst ELSE SubSeq(lst, 1, Len(lst) - 1)

\* s.lower() on the one-letter answers the prompts are tried with
Lower(s) == [k \in 1..Len(s) |-> IF s[k] = "Y" THEN "y" ELSE s[k]]

----------------------------------------------------------------------------
(* The environment: what the user types and what the external tools answer *)

ScriptName == <<"d">>
\* a URL with a tracking suffix after "&"
URLs == {<<"u","&","p">>}
\* an option that is not recognised; also the folder name tried
Other == <<"x">>
\* the tokens option lists are built from
Tokens == {OptA, OptC, OptCompatibility, OptF, OptFolder, OptH, OptS, Other}

RECURSIVE SeqsUpTo(_, _)
SeqsUpTo(S, n) ==
    IF n = 0 THEN {<<>>}
    ELSE LET shorter == SeqsUpTo(S, n - 1) IN
         shorter \cup {Append(q, x) : q \in {r \in shorter : Len(r) = n - 1}, x \in S}

\* command lines tried in direct mode, and the bare command of interactive mode
CommandLines ==
    {<<ScriptName>>} \cup
    {<<ScriptName, u>> \o o : u \in URLs \cup {OptH}, o \in SeqsUpTo(Tokens, MaxOpts)}

\* values of the configuration line 18 that are tried: the one the script
\* ships with, and one that is not supported
HwaccelValues == {"amd", "vaapi"}

\* answers typed at the y/N prompts
Answers == {<<"y">>, <<"Y">>, Empty}
\* answers typed at the folder prompt
FolderAnswers == {Empty, Other}

\* names yt-dlp --get-filename may print: prefix + "-download-" + id.  The
\* second title itself contains the text "-download-".
Prefixes == {<<"x","/","t">>, <<"a">> \o Marker \o <<"b">>}
Ids == {<<"1">>}
PredictedNames == {p \o Marker \o d : p \in Prefixes, d \in Ids}
\* extensions the downloader may give the file it writes
Extensions == {<<".","w","e","b","m">>}
\* the files whose presence the script can observe
CandidateFiles == PredictedNames \cup {n \o e : n \in PredictedNames, e \in Extensions}
\* the states of the filesystem the download may leave behind
Filesystems == {F \in SUBSET CandidateFiles : Cardinality(F) <= MaxFiles}
\* the lists test.stdout.strip().split("\n") may yield: one name per item
Predictions == SeqsUpTo(PredictedNames, MaxItems) \ {<<>>}
\* process exit codes
ExitCodes == {0, 1}

----------------------------------------------------------------------------
(* Reporting and external operations *)

Msg(kind, arg) == [kind |-> kind, arg |-> arg]
Call(op, arg) == [op |-> op, arg |-> arg]
Detail(op, arg, out, note) == [op |-> op, arg |-> arg, out |-> out, note |-> note]

\* an external operation takes place: it is logged and becomes the last one
Invoke(op, arg, out, note) ==
    /\ calls' = Append(calls, Call(op, arg))
    /\ last' = Detail(op, arg, out, note)

\* print(...) of an error, warning or result
Report(kind, arg) == stdout' = Append(stdout, Msg(kind, arg))

\* the kinds of message after which the script calls close()
FatalKinds == {"MissingTool", "InvalidConfig", "UnknownOption", "InvalidURL",
               "FilenameResolutionFailed", "DownloadFailed",
               "FileNotFoundAfterDownload"}

\* How a POSIX shell cuts a command into words: blanks separate words except
\* inside double quotes, and the quotes themselves are removed.
\* TRUE when position k of s lies inside double quotes
InQuotes(s, k) == Cardinality({j \in 1..(k - 1) : s[j] = "\""}) % 2 = 1

\* the positions of the blanks that separate words
Blanks(s) == {k \in 1..Len(s) : s[k] = " " /\ ~InQuotes(s, k)}

\* the positions at which a word starts
WordStarts(s) ==
    {k \in 1..Len(s) : k \notin Blanks(s) /\ (k = 1 \/ (k - 1) \in Blanks(s))}

\* the word that starts at position a, its quotes removed
WordAt(s, a) ==
    LET stops == {k \in Blanks(s) : k > a}
        final == IF stops = {} THEN Len(s)
                ELSE (CHOOSE k \in stops : \A j \in stops : k <= j) - 1
    IN  SelectSeq(SubSeq(s, a, final), LAMBDA c : c # "\"")

ShellWords(cmd) ==
    LET starts == WordStarts(cmd) IN
    [n \in 1..Cardinality(starts) |->
        WordAt(cmd, CHOOSE a \in starts : Cardinality({x \in starts : x < a}) = n - 1)]

\* the value of -o among the words of a yt-dlp command line
OutputTemplate(words) == words[PyIndex(words, FlagO) + 2]

----------------------------------------------------------------------------
(* Initial state: lines 18, 28, 106, 107 *)

Init ==
    /\ sys_argv \in CommandLines
    /\ hwaccel \in HwaccelValues
    /\ pc = "probe"
    /\ isCli = (Len(sys_argv) > 1)
    /\ url = Undefined
    /\ options = <<>>
    /\ fileformat = TitleTemplate
    /\ folder = Undefined
    /\ args = <<>>
    /\ skipCheck = FALSE
    /\ filenames = <<>>
    /\ i = 0
    /\ finalname = Undefined
    /\ test = 0
    /\ fs = {}
    /\ stdout = <<>>
    /\ calls = <<>>
    /\ last = Detail("none", Empty, Empty, "")

\* close(isCli), lines 30-35: in both modes the interpreter exits
close == pc' = "closed"

----------------------------------------------------------------------------
(* Environment Prober, lines 37-57 *)

Probe ==
    /\ pc = "probe"
    /\ \E ytdlp \in BOOLEAN, ffmpeg \in BOOLEAN :
        IF ~ytdlp THEN Report("MissingTool", YtDlp) /\ close
        ELSE IF ~ffmpeg THEN Report("MissingTool", <<"f","f","m","p","e","g">>) /\ close
        ELSE IF hwaccel \in {"nvidia", "amd", ""} THEN pc' = "parse" /\ UNCHANGED stdout
        ELSE Report("InvalidConfig", Empty) /\ close
    /\ UNCHANGED <<sys_argv, hwaccel, isCli, url, options, fileformat, folder, args,
                   skipCheck, filenames, i, finalname, test, fs, calls, last>>

----------------------------------------------------------------------------
(* Argument Resolver, direct mode, lines 110-154 and 185 *)

IsFolderFlag(tok) == tok = OptF \/ tok = OptFolder

\* lines 115-121: the 0-based positions at which the loop prints
\* "Unknown option"; the loop stops at the first of them
UnknownAt(opts) ==
    {k \in 0..(Len(opts) - 1) :
        /\ ~In(PyAt(opts, k), allowedOptions)
        /\ ~IsFolderFlag(PyAt(opts, k - 1))}

Min(S) == CHOOSE m \in S : \A n \in S : m <= n

\* a variant that looks for help among the options only, not in all of sys.argv
HelpRequested_OptionsOnly(argv) ==
    In(OptH, SubSeq(argv, 3, Len(argv))) \/ In(OptHelp, SubSeq(argv, 3, Len(argv)))

\* line 124
HelpRequested(argv) == In(OptH, argv) \/ In(OptHelp, argv)

\* lines 136-140
BaseArgs(opts) ==
    Insert0(IF In(OptA, opts) \/ In(OptAudio, opts)
            THEN Insert0(<<FlagRestrict, FlagNoPlaylist>>, FlagX)
            ELSE <<FlagRestrict, FlagNoPlaylist>>,
            FlagProgress)

\* lines 141-142
DirectFileformat(opts) ==
    IF In(OptC, opts) \/ In(OptCompatibility, opts)
    THEN TitleTemplate \o MarkerSuffix
    ELSE TitleTemplate

\* line 143
FolderGiven(opts) == In(OptF, opts) \/ In(OptFolder, opts)

\* line 144: the 0-based index the folder name is read from
FolderIndex(opts) ==
    IF In(OptF, opts) THEN PyIndex(opts, OptF) + 1 ELSE PyIndex(opts, OptFolder) + 1

\* lines 146, 150, 178, 181: the quoted value of -o
QuotedTemplate(dir, withFolder, fmt) ==
    IF withFolder THEN Quote \o dir \o Slash \o fmt \o Quote
    ELSE Quote \o fmt \o Quote

\* line 151
DirectSkipCheck(opts) == In(OptS, opts) \/ In(OptNoCheck, opts)

\* line 185: url.split("&")[0]
StripAmpersand(u) == Split(u, <<"&">>)[1]

ParseDirect ==
    /\ pc = "parse"
    /\ Len(sys_argv) > 1
    /\ LET opts == SubSeq(sys_argv, 3, Len(sys_argv)) IN
       /\ options' = opts
       /\ IF UnknownAt(opts) # {}
          THEN /\ Report("UnknownOption", PyAt(opts, Min(UnknownAt(opts))))
               /\ close
               /\ url' = sys_argv[2]
               /\ UNCHANGED <<fileformat, folder, args, skipCheck>>
          ELSE IF HelpRequested(sys_argv)
          THEN /\ Report("Usage", Empty)
               /\ close
               /\ url' = sys_argv[2]
               /\ UNCHANGED <<fileformat, folder, args, skipCheck>>
          ELSE IF FolderGiven(opts) /\ FolderIndex(opts) >= Len(opts)
          THEN \* line 144 raises IndexError: the script dies with a traceback
               /\ pc' = "crashed"
               /\ url' = sys_argv[2]
               /\ fileformat' = DirectFileformat(opts)
               /\ args' = BaseArgs(opts)
               /\ UNCHANGED <<folder, skipCheck, stdout>>
          ELSE /\ pc' = "check"
               /\ url' = StripAmpersand(sys_argv[2])
               /\ fileformat' = DirectFileformat(opts)
               /\ folder' = IF FolderGiven(opts) THEN PyAt(opts, FolderIndex(opts)) ELSE Empty
               /\ args' = BaseArgs(opts) \o
                          <<FlagO, QuotedTemplate(folder', FolderGiven(opts), fileformat')>>
               /\ skipCheck' = DirectSkipCheck(opts)
               /\ UNCHANGED stdout
    /\ UNCHANGED <<sys_argv, hwaccel, isCli, filenames, i, finalname, test, fs, calls, last>>

----------------------------------------------------------------------------
(* Argument Resolver, interactive mode, lines 155-181 and 185 *)

ParseInteractive ==
    /\ pc = "parse"
    /\ ~(Len(sys_argv) > 1)
    /\ \E u \in URLs, audio \in Answers, compatibility \in Answers, f \in FolderAnswers :
        /\ isCli' = FALSE
        /\ skipCheck' = FALSE
        /\ url' = StripAmpersand(u)
        /\ options' = IF Lower(compatibility) = Y THEN Append(options, OptC) ELSE options
        /\ fileformat' = IF Lower(compatibility) = Y THEN fileformat \o MarkerSuffix
                         ELSE fileformat
        /\ folder' = f
        /\ args' = (IF Lower(audio) = Y
                    THEN Insert0(<<FlagRestrict, FlagNoPlaylist, FlagProgress>>, FlagX)
                    ELSE <<FlagRestrict, FlagNoPlaylist, FlagProgress>>) \o
                   <<FlagO, QuotedTemplate(f, f # Empty, fileformat')>>
    /\ pc' = "check"
    /\ UNCHANGED <<sys_argv, hwaccel, filenames, i, finalname, test, fs, stdout, calls, last>>

----------------------------------------------------------------------------
(* URL Validator, lines 64-77 and 187-190 *)

\* a variant whose failure branch reports the error but does not call close()
CheckURL_NoClose ==
    /\ pc = "check"
    /\ IF skipCheck
       THEN pc' = "predict" /\ UNCHANGED <<stdout, calls, last>>
       ELSE \E rc \in ExitCodes :
            /\ Invoke("get-title", url, Empty, "")
            /\ pc' = "predict"
            /\ IF rc # 0 THEN Report("InvalidURL", Empty) ELSE UNCHANGED stdout
    /\ UNCHANGED <<sys_argv, hwaccel, isCli, url, options, fileformat, folder, args,
                   skipCheck, filenames, i, finalname, test, fs>>

CheckURL ==
    /\ pc = "check"
    /\ IF skipCheck
       THEN pc' = "predict" /\ UNCHANGED <<stdout, calls, last>>
       ELSE \E rc \in ExitCodes :
            /\ Invoke("get-title", url, Empty, "")
            /\ IF rc # 0 THEN Report("InvalidURL", Empty) /\ close
               ELSE pc' = "predict" /\ UNCHANGED stdout
    /\ UNCHANGED <<sys_argv, hwaccel, isCli, url, options, fileformat, folder, args,
                   skipCheck, filenames, i, finalname, test, fs>>

----------------------------------------------------------------------------
(* Filename Resolver, lines 79-90 and 192-194 *)

\* line 192
CompatibilityActive(opts) == In(OptC, opts)

\* line 80: the value of -o handed to yt-dlp --get-filename
PredictTemplate(dir, fmt) == dir \o Slash \o fmt

GetFilenames ==
    /\ pc = "predict"
    /\ IF ~CompatibilityActive(options)
       THEN pc' = "download" /\ UNCHANGED <<filenames, stdout, calls, last>>
       ELSE \E rc \in ExitCodes, names \in Predictions :
            /\ Invoke("get-filename", PredictTemplate(folder, fileformat), Empty, "")
            /\ IF rc # 0
               THEN Report("FilenameResolutionFailed", Empty) /\ close
                    /\ UNCHANGED filenames
               ELSE pc' = "download" /\ filenames' = names /\ UNCHANGED stdout
    /\ UNCHANGED <<sys_argv, hwaccel, isCli, url, options, fileformat, folder, args,
                   skipCheck, i, finalname, test, fs>>

----------------------------------------------------------------------------
(* Download Executor, lines 196-213, and the loop entry of line 216 *)

\* line 205: "yt-dlp " + " ".join(args)
DownloadCommand(a) == YtDlp \o <<" ">> \o Join(a, <<" ">>)

Download ==
    /\ pc = "download"
    /\ url' = Quote \o url \o Quote
    /\ args' = Insert0(args, Quote \o url \o Quote)
    /\ \E rc \in ExitCodes, files \in Filesystems,
          words \in {ShellWords(DownloadCommand(Insert0(args, Quote \o url \o Quote)))} :
        /\ test' = rc
        /\ Invoke("download", OutputTemplate(words), Empty, "")
        /\ IF rc # 0
           THEN Report("DownloadFailed", Empty) /\ close /\ UNCHANGED fs
           ELSE /\ Report("Success", Empty)
                /\ fs' = files
                /\ pc' = IF CompatibilityActive(options) THEN "locate" ELSE "closed"
    /\ UNCHANGED <<sys_argv, hwaccel, isCli, options, fileformat, folder, skipCheck,
                   filenames, i, finalname>>

----------------------------------------------------------------------------
(* Transcode Post-processor, lines 216-250 *)

\* glob.glob(basename + ".*")
Glob(basename, files) == {f \in files : StartsWith(f, basename \o Dot)}

\* lines 97-103: the values FindDownloadedFile may return; glob's order is
\* that of the directory listing, so files[0] is any of the matches
FindDownloadedFile(basename, files) ==
    IF basename \in files THEN {basename}
    ELSE IF Glob(basename, files) = {} THEN {None}
    ELSE Glob(basename, files)

\* line 226
FinalName(file) == Join(DropLast(Split(file, Marker)), Dot)

\* lines 218-226
Locate ==
    /\ pc = "locate"
    /\ \E found \in FindDownloadedFile(PyAt(filenames, i), fs) :
        /\ filenames' = [filenames EXCEPT ![i + 1] = found]
        /\ IF found = None
           THEN \* line 224 formats filenames[i], which line 220 has overwritten
                /\ Report("FileNotFoundAfterDownload", PyAt(filenames', i))
                /\ close
                /\ UNCHANGED finalname
           ELSE /\ finalname' = FinalName(found)
                /\ pc' = "transcode"
                /\ UNCHANGED stdout
    /\ UNCHANGED <<sys_argv, hwaccel, isCli, url, options, fileformat, folder, args,
                   skipCheck, i, test, fs, calls, last>>

\* lines 231-239: the video encoder chosen by the configuration
Encoder(hw) ==
    IF hw = "nvidia" THEN "h264_nvenc"
    ELSE IF hw = "amd" THEN "h264_amf"
    ELSE "libx264"

\* lines 227-239: IsAudio (ffprobe) and then ffmpeg
Transcode ==
    /\ pc = "transcode"
    /\ \E audio \in BOOLEAN, rc \in ExitCodes :
        LET file == PyAt(filenames, i)
            out == finalname \o (IF audio THEN <<".","m","4","a">> ELSE <<".","m","p","4">>)
            enc == IF audio THEN "aac" ELSE Encoder(hwaccel)
        IN  /\ calls' = calls \o <<Call("ffprobe", file), Call("ffmpeg", file)>>
            /\ last' = Detail("ffmpeg", file, out, enc)
            /\ test' = rc
            \* fs follows the candidate files only; the output is never one
            /\ fs' = IF rc = 0 THEN fs \cup ({out} \cap CandidateFiles) ELSE fs
    /\ pc' = "cleanup"
    /\ UNCHANGED <<sys_argv, hwaccel, isCli, url, options, fileformat, folder, args,
                   skipCheck, filenames, i, finalname, stdout>>

\* a variant that keeps the source file when the transcode failed
Cleanup_OnlyOnSuccess ==
    /\ pc = "cleanup"
    /\ IF test # 0
       THEN UNCHANGED <<fs, stdout, calls, last>>
       ELSE \E removed \in BOOLEAN :
            /\ Invoke("remove", PyAt(filenames, i), Empty, IF removed THEN "ok" ELSE "raised")
            /\ IF removed
               THEN fs' = fs \ {PyAt(filenames, i)} /\ UNCHANGED stdout
               ELSE Report("DeleteWarning", PyAt(filenames, i)) /\ UNCHANGED fs
    /\ pc' = "verdict"
    /\ UNCHANGED <<sys_argv, hwaccel, isCli, url, options, fileformat, folder, args,
                   skipCheck, filenames, i, finalname, test>>

\* lines 240-243: os.remove may raise (the file is open elsewhere)
Cleanup ==
    /\ pc = "cleanup"
    /\ \E removed \in BOOLEAN :
        /\ Invoke("remove", PyAt(filenames, i), Empty, IF removed THEN "ok" ELSE "raised")
        /\ IF removed
           THEN fs' = fs \ {PyAt(filenames, i)} /\ UNCHANGED stdout
           ELSE Report("DeleteWarning", PyAt(filenames, i)) /\ UNCHANGED fs
    /\ pc' = "verdict"
    /\ UNCHANGED <<sys_argv, hwaccel, isCli, url, options, fileformat, folder, args,
                   skipCheck, filenames, i, finalname, test>>

\* a variant that closes in both modes
ClosesOnFailure_Always(cli) == TRUE

\* lines 245-249: whether a failed transcode is followed by close()
ClosesOnFailure(cli) == ~cli

\* lines 244-250, and the step of the for loop of line 217
Verdict ==
    /\ pc = "verdict"
    /\ IF test # 0
       THEN /\ Report("TranscodeFailed", Empty)
            /\ IF ClosesOnFailure(isCli)
               THEN close /\ UNCHANGED i
               ELSE /\ i' = i + 1
                    /\ pc' = IF i + 1 < Len(filenames) THEN "locate" ELSE "closed"
       ELSE /\ i' = i + 1
            /\ pc' = IF i + 1 < Len(filenames) THEN "locate" ELSE "closed"
            /\ UNCHANGED stdout
    /\ UNCHANGED <<sys_argv, hwaccel, isCli, url, options, fileformat, folder, args,
                   skipCheck, filenames, finalname, test, fs, calls, last>>

----------------------------------------------------------------------------

Next ==
    \/ Probe
    \/ ParseDirect
    \/ ParseInteractive
    \/ CheckURL
    \/ GetFilenames
    \/ Download
    \/ Locate
    \/ Transcode
    \/ Cleanup
    \/ Verdict

Spec == Init /\ [][Next]_vars

----------------------------------------------------------------------------
(* Vocabulary of the properties *)

DirectMode == Len(sys_argv) > 1
\* the Argument Resolver has run (the Environment Prober let it)
Parsed == url # Undefined
Reported(kind) == \E k \in 1..Len(stdout) : stdout[k].kind = kind
LastReport == IF stdout = <<>> THEN "" ELSE stdout[Len(stdout)].kind
NumReports(kind) == Cardinality({k \in 1..Len(stdout) : stdout[k].kind = kind})
NumCalls(op) == Cardinality({k \in 1..Len(calls) : calls[k].op = op})
Options == SubSeq(sys_argv, 3, Len(sys_argv))
InLoop == pc \in {"locate", "transcode", "cleanup", "verdict"}
CompatibilityRequested == In(OptC, options) \/ In(OptCompatibility, options)
HelpAmongArguments == \E k \in 2..Len(sys_argv) : sys_argv[k] \in {OptH, OptHelp}

----------------------------------------------------------------------------
(* C1 *)

\* C1: whenever both the filename prediction and the download have been
\* invoked, they were given the same output template.
C1_SameTemplate ==
    \A a \in 1..Len(calls), b \in 1..Len(calls) :
        (calls[a].op = "get-filename" /\ calls[b].op = "download")
            => calls[a].arg = calls[b].arg

----------------------------------------------------------------------------
(* C2 *)

\* C2: when compatibility mode is requested (-c or --compatibility among the
\* options, or the answer y), every download is preceded by a filename
\* prediction, and a run that finishes after a successful download without a
\* later fatal error has transcoded once per predicted filename, at least once.
C2_ResolverThenTranscode ==
    /\ \A b \in 1..Len(calls) :
        (CompatibilityRequested /\ calls[b].op = "download")
            => \E a \in 1..(b - 1) : calls[a].op = "get-filename"
    /\ ( /\ CompatibilityRequested
         /\ pc = "closed"
         /\ Reported("Success")
         /\ ~Reported("FileNotFoundAfterDownload")
         /\ (isCli \/ ~Reported("TranscodeFailed")) )
            => (NumCalls("ffmpeg") = Len(filenames) /\ NumCalls("ffmpeg") >= 1)

----------------------------------------------------------------------------
(* C3 *)

\* C3: in direct mode the option list is rejected with an unknown-option error
\* exactly when it holds a token that is not recognised and is not immediately
\* preceded by -f or --folder; an unrecognised first token is always rejected.
C3_UnknownRejected ==
    (DirectMode /\ Parsed) =>
        (Reported("UnknownOption") <=>
            \E k \in 1..Len(Options) :
                /\ ~In(Options[k], allowedOptions)
                /\ (k = 1 \/ ~(Options[k - 1] \in {OptF, OptFolder})))

----------------------------------------------------------------------------
(* C4 *)

----------------------------------------------------------------------------
(* C5 *)

\* C5 as stated: in direct mode, once the arguments are resolved, -h or --help
\* among them means the usage text was printed, the run is over and no
\* external process was invoked.
C5_HelpAlwaysPrintsUsage ==
    (DirectMode /\ Parsed /\ HelpAmongArguments) =>
        (Reported("Usage") /\ pc = "closed" /\ calls = <<>>)

\* C5 amended: in direct mode, once the arguments are resolved, -h or --help
\* among them means the run is over with no external process invoked and with
\* exactly one message: the usage text, or the unknown-option error when the
\* unknown-option check, which runs first, rejects the option list.
C5_HelpTerminates ==
    (DirectMode /\ Parsed /\ HelpAmongArguments) =>
        /\ pc = "closed"
        /\ ~ENABLED Next
        /\ calls = <<>>
        /\ Len(stdout) = 1
        /\ LastReport \in {"Usage", "UnknownOption"}
        /\ LastReport = "UnknownOption" =>
                \E k \in 1..Len(Options) : ~In(Options[k], allowedOptions)

\* C5: usage was printed for a command line that holds help and other options.
C5_Witness ==
    /\ DirectMode /\ HelpAmongArguments
    /\ Len(Options) >= 2
    /\ Reported("Usage")

----------------------------------------------------------------------------
(* C6 *)

\* C6: a file-not-found error ends the run and its message names the predicted
\* filename that could not be located.
C6_ErrorNamesPredictedFile ==
    \A k \in 1..Len(stdout) :
        stdout[k].kind = "FileNotFoundAfterDownload" =>
            (pc = "closed" /\ stdout[k].arg \in PredictedNames)

----------------------------------------------------------------------------
(* C7 *)

\* C7: when ffmpeg has just run on a file P + "-download-" + id (+ extension),
\* the final name is P and the output is P.m4a (audio only) or P.mp4.
C7_FinalNameIsPrefix ==
    \A p \in Prefixes, d \in Ids, e \in Extensions \cup {Empty} :
        (pc = "cleanup" /\ last.arg = p \o Marker \o d \o e) =>
            /\ finalname = p
            /\ last.out = p \o (IF last.note = "aac" THEN <<".","m","4","a">>
                                ELSE <<".","m","p","4">>)

----------------------------------------------------------------------------
(* C8 *)

\* C8, interactive half: in interactive mode a failed transcode is the end of
\* the run; the failed item is the last one transcoded.
C8_InteractiveStops ==
    (~isCli /\ Reported("TranscodeFailed")) =>
        /\ pc = "closed"
        /\ LastReport = "TranscodeFailed"
        /\ NumCalls("ffmpeg") = i + 1
        /\ calls[Len(calls)].op = "remove"

\* C8, direct half: in direct mode a failed transcode does not end the run;
\* right after the report the loop stands at the next item, or is complete.
C8_DirectGoesOn ==
    (isCli /\ LastReport = "TranscodeFailed") =>
        (InLoop \/ (pc = "closed" /\ i = Len(filenames)))

\* C8 as stated: in direct mode a run in which a transcode failed ends only
\* after every predicted filename has been transcoded.
C8_DirectProcessesAll ==
    (isCli /\ Reported("TranscodeFailed") /\ pc = "closed") =>
        NumCalls("ffmpeg") = Len(filenames)

\* C8 as stated: a failed transcode ends the run exactly in interactive mode,
\* and in direct mode every remaining predicted filename is processed.
C8_FailureStopsIffInteractive ==
    C8_InteractiveStops /\ C8_DirectGoesOn /\ C8_DirectProcessesAll

\* C8 amended: a failed transcode ends the run exactly in interactive mode; in
\* direct mode the loop goes on with the next predicted filename, and the run
\* ends before all of them are transcoded only when a later file is not found.
C8_FailureStopsIffInteractiveOrNotFound ==
    /\ C8_InteractiveStops
    /\ C8_DirectGoesOn
    /\ (isCli /\ Reported("TranscodeFailed") /\ pc = "closed") =>
            (NumCalls("ffmpeg") = Len(filenames)
                \/ LastReport = "FileNotFoundAfterDownload")

\* C8: in direct mode the transcode of the first item failed and the second
\* item has been transcoded.
C8_Witness ==
    /\ isCli
    /\ Reported("TranscodeFailed")
    /\ pc = "cleanup"
    /\ i = 1

----------------------------------------------------------------------------
(* C9 *)

\* C9: every ffmpeg run is followed by one os.remove of its input, and nothing
\* else is removed; the removal comes before the exit code is examined and
\* whatever that code is, so a successful removal leaves no source file even
\* after a failed transcode; a removal that raises leaves a warning and the
\* loop goes on.
C9_DeleteOncePerItem ==
    /\ \A k \in 1..Len(calls) :
        /\ (calls[k].op = "ffmpeg" /\ k < Len(calls))
                => calls[k + 1] = Call("remove", calls[k].arg)
        /\ calls[k].op = "remove"
                => (k > 1 /\ calls[k - 1] = Call("ffmpeg", calls[k].arg))
    /\ pc = "cleanup" => (last.op = "ffmpeg" /\ NumCalls("remove") = i)
    /\ pc = "verdict" =>
        /\ last.op = "remove"
        /\ NumCalls("remove") = i + 1
        /\ NumReports("TranscodeFailed") <= i
        /\ last.note = "ok" => last.arg \notin fs
        /\ last.note = "raised" =>
                stdout[Len(stdout)] = Msg("DeleteWarning", last.arg)
    /\ LastReport = "DeleteWarning" =>
        (InLoop \/ (pc = "closed" /\ i = Len(filenames)))

\* C9: the transcode failed and the source file has been removed.
C9_Witness ==
    /\ pc = "verdict"
    /\ test # 0
    /\ last.op = "remove" /\ last.note = "ok"
    /\ last.arg \notin fs

----------------------------------------------------------------------------
(* C10 *)

\* C10: in direct mode argument resolution ends in exactly one of: the usage
\* text, an unknown-option error, or a request with folder, downloader
\* arguments and skip-check all set.
C10_ThreeOutcomes ==
    (DirectMode /\ Parsed) =>
        LET usage == Reported("Usage")
            unknown == Reported("UnknownOption")
            populated == folder # Undefined /\ In(FlagO, args) /\ pc # "crashed"
        IN  \/ (usage /\ ~unknown /\ ~populated)
            \/ (~usage /\ unknown /\ ~populated)
            \/ (~usage /\ ~unknown /\ populated)

====
